---- MODULE Spec2Model ----
(***************************************************************************)
(* Resources.BackgroundServiceView                                         *)
(* (front_end/resources/BackgroundServiceView.js).                         *)
(*                                                                         *)
(* The view is driven by the single-threaded UI event loop: every step of  *)
(* the model is one task of that loop (a click handler, a notification     *)
(* handler) run to completion, or one statement group of the constructor.  *)
(* Strings that the code slices (origins, script URLs) are sequences of    *)
(* one-character strings; other strings are opaque.                        *)
(***************************************************************************)
EXTENDS Integers, Sequences, FiniteSets, TLC

VARIABLES
    pc,               \* position inside the constructor, "done" once it returned
    serviceName,      \* this._serviceName
    listeners,        \* notifications the view has subscribed to
    recordButton,     \* this._recordButton   (Null or [toggled])
    originCheckbox,   \* this._originCheckbox (Null or [checked])
    dataGrid,         \* this._dataGrid       (Null or [children]: rootNode().children)
    events,           \* the model's retained event buffer
    securityOrigins,  \* this._securityOriginManager.securityOrigins()
    registrations,    \* this._serviceWorkerManager.registrations()
    task,             \* the event-loop task that ran last, with its input
    calls             \* calls the last task made on the model and the grid, in order

vars == <<pc, serviceName, listeners, recordButton, originCheckbox, dataGrid,
          events, securityOrigins, registrations, task, calls>>

----------------------------------------------------------------------------
(* Bounds and input universes *)

MaxEvents == 2

Null == [isNull |-> TRUE]

ServiceNames == {"push", "sync"}

OriginA == <<"a">>
OriginB == <<"b">>

OriginSets == SUBSET {OriginA, OriginB}

Version1 == [scriptURL |-> <<"a", "/", "s">>, securityOrigin |-> OriginA]

RegistrationStates ==
    { [r \in {"r1"} |-> Null],
      [r \in {"r1"} |-> [isNull |-> FALSE, versions |-> <<>>]],
      [r \in {"r1"} |-> [isNull |-> FALSE, versions |-> <<Version1>>]] }

Event1 == [service |-> "push", origin |-> <<"a", "/">>, timestamp |-> 1,
           eventName |-> "push-received", instanceId |-> "1",
           serviceWorkerRegistrationId |-> "r1", eventMetadata |-> <<>>]
Event2 == [service |-> "push", origin |-> <<"b", "/">>, timestamp |-> 2,
           eventName |-> "push-received", instanceId |-> "2",
           serviceWorkerRegistrationId |-> "r0",
           eventMetadata |-> <<[key |-> "k", value |-> "v"]>>]
Event3 == [service |-> "sync", origin |-> <<"a", "/">>, timestamp |-> 3,
           eventName |-> "sync-registered", instanceId |-> "3",
           serviceWorkerRegistrationId |-> "r1", eventMetadata |-> <<>>]
ServiceEvents == {Event1, Event2, Event3}

RecordingStates == [serviceName : ServiceNames, isRecording : BOOLEAN]

----------------------------------------------------------------------------
(* Library functions the code calls *)

Min(a, b) == IF a < b THEN a ELSE b

\* String.prototype.substr(start, length) for 0 <= start
Substr(s, start, length) ==
    IF length <= 0 \/ start >= Len(s) THEN <<>>
    ELSE SubSeq(s, start + 1, Min(start + length, Len(s)))

\* String.prototype.substr(start)
SubstrFrom(s, start) == Substr(s, start, Len(s) - start)

\* UI.formatTimestamp(timestamp, full)
FormatTimestamp(ms, full) == [formatted |-> ms, full |-> full]

\* Map.prototype.get on registrations()
RegistrationsGet(regs, id) == IF id \in DOMAIN regs THEN regs[id] ELSE Null

\* model.getEvents(serviceName)
GetEvents(buffer, service) == SelectSeq(buffer, LAMBDA e : e.service = service)

\* model.clearEvents(serviceName)
ClearEvents(buffer, service) == SelectSeq(buffer, LAMBDA e : e.service # service)

\* the model retains an event before it dispatches BackgroundServiceEventReceived
RetainEvent(buffer, e) == Append(buffer, e)

Task(name, arg, error) == [name |-> name, arg |-> arg, error |-> error]

Call(fn, args) == [fn |-> fn, args |-> args]

----------------------------------------------------------------------------
(* The view's methods, as functions of the fields they read *)

Grid(children) == [isNull |-> FALSE, children |-> children]

\* _createDataGrid
CreateDataGrid == Grid(<<>>)

\* as _setupToolbar with an await ahead of the checkbox: the constructor goes on
\* while the checkbox is still null
SetupToolbarDeferred ==
    [recordButton   |-> [isNull |-> FALSE, toggled |-> FALSE],
     originCheckbox |-> Null]

\* _setupToolbar: no await in its body, so it runs to its end inside the call.
\* A new ToolbarToggle is not toggled and a new ToolbarCheckbox is not checked.
SetupToolbar ==
    [recordButton   |-> [isNull |-> FALSE, toggled |-> FALSE],
     originCheckbox |-> [isNull |-> FALSE, checked |-> FALSE]]

\* as _acceptEvent without the trim of the trailing character
AcceptEventNoTrim(event, service, checkbox, origins) ==
    IF event.service # service THEN FALSE
    ELSE IF checkbox.checked THEN TRUE
    ELSE event.origin \in origins

\* _acceptEvent
AcceptEvent(event, service, checkbox, origins) ==
    IF event.service # service THEN FALSE
    ELSE IF checkbox.checked THEN TRUE
    ELSE LET origin == Substr(event.origin, 0, Len(event.origin) - 1)
         IN  origin \in origins

\* as _createEventData with ids counted from one
CreateEventDataOneBased(serviceEvent, children, regs) ==
    LET reg == RegistrationsGet(regs, serviceEvent.serviceWorkerRegistrationId)
        swSource ==
            IF (~reg.isNull) /\ Len(reg.versions) # 0
            THEN LET version == reg.versions[1]
                 IN  SubstrFrom(version.scriptURL, Len(version.securityOrigin))
            ELSE <<>>
    IN  [id         |-> Len(children) + 1,
         timestamp  |-> FormatTimestamp(serviceEvent.timestamp * 1000, TRUE),
         origin     |-> serviceEvent.origin,
         swSource   |-> swSource,
         eventName  |-> serviceEvent.eventName,
         instanceId |-> serviceEvent.instanceId]

\* _createEventData
CreateEventData(serviceEvent, children, regs) ==
    LET reg == RegistrationsGet(regs, serviceEvent.serviceWorkerRegistrationId)
        swSource ==
            IF (~reg.isNull) /\ Len(reg.versions) # 0
            THEN LET version == reg.versions[1]
                 IN  SubstrFrom(version.scriptURL, Len(version.securityOrigin))
            ELSE <<>>
    IN  [id         |-> Len(children),
         timestamp  |-> FormatTimestamp(serviceEvent.timestamp * 1000, TRUE),
         origin     |-> serviceEvent.origin,
         swSource   |-> swSource,
         eventName  |-> serviceEvent.eventName,
         instanceId |-> serviceEvent.instanceId]

\* as _addEvent inserting the new node ahead of the others
AddEventPrepend(children, serviceEvent, regs) ==
    <<[data          |-> CreateEventData(serviceEvent, children, regs),
       eventMetadata |-> serviceEvent.eventMetadata]>> \o children

\* _addEvent: the new EventDataNode is appended to rootNode()
AddEvent(children, serviceEvent, regs) ==
    Append(children, [data          |-> CreateEventData(serviceEvent, children, regs),
                      eventMetadata |-> serviceEvent.eventMetadata])

\* the loop of _refreshView
RECURSIVE AddEvents(_, _, _)
AddEvents(children, accepted, regs) ==
    IF accepted = <<>> THEN children
    ELSE AddEvents(AddEvent(children, Head(accepted), regs), Tail(accepted), regs)

\* _clearView
ClearView(children) == <<>>

AppendCalls(n) == [i \in 1..n |-> Call("appendChild", <<>>)]

\* as _refreshView without the call of _clearView
RefreshViewNoClear(grid, buffer, service, checkbox, origins, regs) ==
    IF grid.isNull
    THEN [dataGrid |-> grid, calls |-> <<>>, error |-> TRUE]
    ELSE LET fetched == GetEvents(buffer, service)
             before  == <<Call("getEvents", <<service>>)>>
         IN  IF checkbox.isNull /\ fetched # <<>>
             THEN [dataGrid |-> grid, calls |-> before, error |-> TRUE]
             ELSE LET accepted == SelectSeq(fetched,
                                    LAMBDA e : AcceptEvent(e, service, checkbox, origins))
                  IN  [dataGrid |-> Grid(AddEvents(grid.children, accepted, regs)),
                       calls    |-> before \o AppendCalls(Len(accepted)),
                       error    |-> FALSE]

\* _refreshView.  The result carries the grid, the calls made, and whether a
\* TypeError ended the method (a control it dereferences is still null).
RefreshView(grid, buffer, service, checkbox, origins, regs) ==
    IF grid.isNull
    THEN [dataGrid |-> grid, calls |-> <<>>, error |-> TRUE]
    ELSE LET cleared == ClearView(grid.children)
             fetched == GetEvents(buffer, service)
             before  == <<Call("removeChildren", <<>>), Call("getEvents", <<service>>)>>
         IN  IF checkbox.isNull /\ fetched # <<>>
             THEN [dataGrid |-> Grid(cleared), calls |-> before, error |-> TRUE]
             ELSE LET accepted == SelectSeq(fetched,
                                    LAMBDA e : AcceptEvent(e, service, checkbox, origins))
                  IN  [dataGrid |-> Grid(AddEvents(cleared, accepted, regs)),
                       calls    |-> before \o AppendCalls(Len(accepted)),
                       error    |-> FALSE]

\* as _deleteEvents with its two statements swapped
DeleteEventsClearFirst(grid, buffer, service) ==
    IF grid.isNull
    THEN [dataGrid |-> grid, events |-> buffer, calls |-> <<>>, error |-> TRUE]
    ELSE [dataGrid |-> Grid(ClearView(grid.children)),
          events |-> ClearEvents(buffer, service),
          calls |-> <<Call("removeChildren", <<>>), Call("clearEvents", <<service>>)>>,
          error |-> FALSE]

\* _deleteEvents
DeleteEvents(grid, buffer, service) ==
    LET purge == <<Call("clearEvents", <<service>>)>>
    IN  IF grid.isNull
        THEN [dataGrid |-> grid, events |-> ClearEvents(buffer, service),
              calls |-> purge, error |-> TRUE]
        ELSE [dataGrid |-> Grid(ClearView(grid.children)),
              events |-> ClearEvents(buffer, service),
              calls |-> purge \o <<Call("removeChildren", <<>>)>>, error |-> FALSE]

\* as _toggleRecording passing the toggled state itself
ToggleRecordingCallsNoNegation(button, service) ==
    <<Call("setRecording", <<button.toggled, service>>)>>

\* _toggleRecording
ToggleRecordingCalls(button, service) ==
    <<Call("setRecording", <<~button.toggled, service>>)>>

----------------------------------------------------------------------------
(* The constructor *)

Init ==
    /\ pc = "subscribe"
    /\ serviceName \in ServiceNames
    /\ listeners = {}
    /\ recordButton = Null
    /\ originCheckbox = Null
    /\ dataGrid = Null
    /\ events = <<>>
    /\ securityOrigins \in OriginSets
    /\ registrations \in RegistrationStates
    /\ task = Task("constructor", Null, FALSE)
    /\ calls = <<>>

\* lines 19-23: subscribe to the model, then enable the service
CtorSubscribe ==
    /\ pc = "subscribe"
    /\ listeners' = listeners \cup {"RecordingStateChanged", "BackgroundServiceEventReceived"}
    /\ calls' = <<Call("enable", <<serviceName>>)>>
    /\ pc' = "origins"
    /\ UNCHANGED <<serviceName, recordButton, originCheckbox, dataGrid, events,
                   securityOrigins, registrations, task>>

\* lines 26-31: subscribe to the security origin manager
CtorOrigins ==
    /\ pc = "origins"
    /\ listeners' = listeners \cup {"MainSecurityOriginChanged"}
    /\ pc' = "toolbar"
    /\ UNCHANGED <<serviceName, recordButton, originCheckbox, dataGrid, events,
                   securityOrigins, registrations, task, calls>>

\* lines 34-41: the controls are null until _setupToolbar has assigned them
CtorToolbar ==
    /\ pc = "toolbar"
    /\ recordButton' = SetupToolbar.recordButton
    /\ originCheckbox' = SetupToolbar.originCheckbox
    /\ pc' = "grid"
    /\ UNCHANGED <<serviceName, listeners, dataGrid, events, securityOrigins,
                   registrations, task, calls>>

\* lines 44-45
CtorGrid ==
    /\ pc = "grid"
    /\ dataGrid' = CreateDataGrid
    /\ pc' = "done"
    /\ UNCHANGED <<serviceName, listeners, recordButton, originCheckbox, events,
                   securityOrigins, registrations, task, calls>>

\* The event loop runs a task only when no other is running: nothing is
\* dispatched to the view before its constructor has returned.
LoopIdle == pc = "done"

----------------------------------------------------------------------------
(* Toolbar clicks *)

\* as the click handler flipping the button itself
ToggleRecordingOptimistic ==
    /\ LoopIdle
    /\ ~recordButton.isNull
    /\ calls' = ToggleRecordingCalls(recordButton, serviceName)
    /\ recordButton' = [recordButton EXCEPT !.toggled = ~recordButton.toggled]
    /\ task' = Task("toggleRecording", Null, FALSE)
    /\ UNCHANGED <<pc, serviceName, listeners, originCheckbox, dataGrid,
                   events, securityOrigins, registrations>>

\* click on the record button: _toggleRecording
ToggleRecording ==
    /\ LoopIdle
    /\ ~recordButton.isNull
    /\ calls' = ToggleRecordingCalls(recordButton, serviceName)
    /\ task' = Task("toggleRecording", Null, FALSE)
    /\ UNCHANGED <<pc, serviceName, listeners, recordButton, originCheckbox, dataGrid,
                   events, securityOrigins, registrations>>

\* click on the refresh button: _refreshView
Refresh ==
    /\ LoopIdle
    /\ LET r == RefreshView(dataGrid, events, serviceName, originCheckbox,
                            securityOrigins, registrations)
       IN  /\ dataGrid' = r.dataGrid
           /\ calls' = r.calls
           /\ task' = Task("refreshView", Null, r.error)
    /\ UNCHANGED <<pc, serviceName, listeners, recordButton, originCheckbox,
                   events, securityOrigins, registrations>>

\* click on the clear button: _clearView
Clear ==
    /\ LoopIdle
    /\ IF dataGrid.isNull
       THEN /\ task' = Task("clearView", Null, TRUE)
            /\ calls' = <<>>
            /\ UNCHANGED dataGrid
       ELSE /\ dataGrid' = Grid(ClearView(dataGrid.children))
            /\ calls' = <<Call("removeChildren", <<>>)>>
            /\ task' = Task("clearView", Null, FALSE)
    /\ UNCHANGED <<pc, serviceName, listeners, recordButton, originCheckbox,
                   events, securityOrigins, registrations>>

\* click on the delete button: _deleteEvents
Delete ==
    /\ LoopIdle
    /\ LET r == DeleteEvents(dataGrid, events, serviceName)
       IN  /\ dataGrid' = r.dataGrid
           /\ events' = r.events
           /\ calls' = r.calls
           /\ task' = Task("deleteEvents", Null, r.error)
    /\ UNCHANGED <<pc, serviceName, listeners, recordButton, originCheckbox,
                   securityOrigins, registrations>>

\* the user flips the origin checkbox; its listener calls _refreshView
OriginCheckboxToggled ==
    /\ LoopIdle
    /\ ~originCheckbox.isNull
    /\ originCheckbox' = [originCheckbox EXCEPT !.checked = ~originCheckbox.checked]
    /\ LET r == RefreshView(dataGrid, events, serviceName, originCheckbox',
                            securityOrigins, registrations)
       IN  /\ dataGrid' = r.dataGrid
           /\ calls' = r.calls
           /\ task' = Task("originCheckbox", Null, r.error)
    /\ UNCHANGED <<pc, serviceName, listeners, recordButton,
                   events, securityOrigins, registrations>>

----------------------------------------------------------------------------
(* Notifications *)

\* _onRecordingStateChanged
OnRecordingStateChanged(state) ==
    /\ LoopIdle
    /\ "RecordingStateChanged" \in listeners
    /\ IF state.serviceName # serviceName
       THEN /\ task' = Task("onRecordingStateChanged", state, FALSE)
            /\ UNCHANGED recordButton
       ELSE IF recordButton.isNull
       THEN /\ task' = Task("onRecordingStateChanged", state, TRUE)
            /\ UNCHANGED recordButton
       ELSE /\ recordButton' = [recordButton EXCEPT !.toggled = state.isRecording]
            /\ task' = Task("onRecordingStateChanged", state, FALSE)
    /\ calls' = <<>>
    /\ UNCHANGED <<pc, serviceName, listeners, originCheckbox, dataGrid,
                   events, securityOrigins, registrations>>

\* as _onEventReceived checking the service alone
EventReceivedUnfiltered(grid, serviceEvent, service, checkbox, origins, regs) ==
    IF serviceEvent.service # service
    THEN [dataGrid |-> grid, calls |-> <<>>, error |-> FALSE]
    ELSE IF grid.isNull
    THEN [dataGrid |-> grid, calls |-> <<>>, error |-> TRUE]
    ELSE [dataGrid |-> Grid(AddEvent(grid.children, serviceEvent, regs)),
          calls |-> <<Call("appendChild", <<>>)>>, error |-> FALSE]

\* _onEventReceived, as a function of the fields it reads
EventReceived(grid, serviceEvent, service, checkbox, origins, regs) ==
    IF serviceEvent.service # service
    THEN [dataGrid |-> grid, calls |-> <<>>, error |-> FALSE]
    ELSE IF checkbox.isNull
    THEN [dataGrid |-> grid, calls |-> <<>>, error |-> TRUE]
    ELSE IF ~AcceptEvent(serviceEvent, service, checkbox, origins)
    THEN [dataGrid |-> grid, calls |-> <<>>, error |-> FALSE]
    ELSE IF grid.isNull
    THEN [dataGrid |-> grid, calls |-> <<>>, error |-> TRUE]
    ELSE [dataGrid |-> Grid(AddEvent(grid.children, serviceEvent, regs)),
          calls |-> <<Call("appendChild", <<>>)>>, error |-> FALSE]

\* the model retains the event and dispatches it: _onEventReceived
OnEventReceived(serviceEvent) ==
    /\ LoopIdle
    /\ "BackgroundServiceEventReceived" \in listeners
    /\ Len(events) < MaxEvents
    /\ events' = RetainEvent(events, serviceEvent)
    /\ LET r == EventReceived(dataGrid, serviceEvent, serviceName, originCheckbox,
                              securityOrigins, registrations)
       IN  /\ dataGrid' = r.dataGrid
           /\ calls' = r.calls
           /\ task' = Task("onEventReceived", serviceEvent, r.error)
    /\ UNCHANGED <<pc, serviceName, listeners, recordButton, originCheckbox,
                   securityOrigins, registrations>>

\* as _onOriginChanged with its test inverted
OriginChangedInverted(grid, buffer, service, checkbox, origins, regs) ==
    IF checkbox.isNull
    THEN [dataGrid |-> grid, calls |-> <<>>, error |-> TRUE]
    ELSE IF ~checkbox.checked
    THEN [dataGrid |-> grid, calls |-> <<>>, error |-> FALSE]
    ELSE RefreshView(grid, buffer, service, checkbox, origins, regs)

\* _onOriginChanged, as a function of the fields it reads
OriginChanged(grid, buffer, service, checkbox, origins, regs) ==
    IF checkbox.isNull
    THEN [dataGrid |-> grid, calls |-> <<>>, error |-> TRUE]
    ELSE IF checkbox.checked
    THEN [dataGrid |-> grid, calls |-> <<>>, error |-> FALSE]
    ELSE RefreshView(grid, buffer, service, checkbox, origins, regs)

\* the security origin manager has a new set of origins and dispatches
\* MainSecurityOriginChanged: _onOriginChanged
OnOriginChanged(origins) ==
    /\ LoopIdle
    /\ "MainSecurityOriginChanged" \in listeners
    /\ securityOrigins' = origins
    /\ LET r == OriginChanged(dataGrid, events, serviceName, originCheckbox,
                              origins, registrations)
       IN  /\ dataGrid' = r.dataGrid
           /\ calls' = r.calls
           /\ task' = Task("onOriginChanged", Null, r.error)
    /\ UNCHANGED <<pc, serviceName, listeners, recordButton, originCheckbox,
                   events, registrations>>

\* the service worker manager's registrations change; the view has no listener
RegistrationsUpdated(regs) ==
    /\ LoopIdle
    /\ regs # registrations
    /\ registrations' = regs
    /\ task' = Task("registrationsUpdated", Null, FALSE)
    /\ calls' = <<>>
    /\ UNCHANGED <<pc, serviceName, listeners, recordButton, originCheckbox, dataGrid,
                   events, securityOrigins>>

----------------------------------------------------------------------------

Next ==
    \/ CtorSubscribe
    \/ CtorOrigins
    \/ CtorToolbar
    \/ CtorGrid
    \/ ToggleRecording
    \/ Refresh
    \/ Clear
    \/ Delete
    \/ OriginCheckboxToggled
    \/ \E state \in RecordingStates : OnRecordingStateChanged(state)
    \/ \E serviceEvent \in ServiceEvents : OnEventReceived(serviceEvent)
    \/ \E origins \in OriginSets : OnOriginChanged(origins)
    \/ \E regs \in RegistrationStates : RegistrationsUpdated(regs)

Spec == Init /\ [][Next]_vars

----------------------------------------------------------------------------
(* Vocabulary of the properties *)

\* the rows shown
Rows == IF dataGrid.isNull THEN <<>> ELSE dataGrid.children

\* what identifies the event a row was built from
RowKey(row) == [origin |-> row.data.origin, eventName |-> row.data.eventName,
                instanceId |-> row.data.instanceId, ms |-> row.data.timestamp.formatted]

EventKey(e) == [origin |-> e.origin, eventName |-> e.eventName,
                instanceId |-> e.instanceId, ms |-> e.timestamp * 1000]

RowKeys(rows) == [i \in 1..Len(rows) |-> RowKey(rows[i])]

EventKeys(evs) == [i \in 1..Len(evs) |-> EventKey(evs[i])]

\* the events of the buffer that the filter accepts, in buffer order
AcceptedUnder(checkbox, origins) ==
    SelectSeq(events, LAMBDA e : AcceptEvent(e, serviceName, checkbox, origins))

Accepted == AcceptedUnder(originCheckbox, securityOrigins)

IsSuffix(s, t) == Len(s) <= Len(t) /\ SubSeq(t, Len(t) - Len(s) + 1, Len(t)) = s

ControlsSet == (~recordButton.isNull) /\ (~originCheckbox.isNull) /\ (~dataGrid.isNull)

RowsMatchBuffer == RowKeys(Rows) = EventKeys(Accepted)

RebuildTasks == {"refreshView", "deleteEvents", "originCheckbox"}

----------------------------------------------------------------------------
(* C1 *)

\* C1 as stated: in every state reachable after construction the rows shown are
\* exactly the buffer's events that acceptEvent accepts under the current
\* checkbox and origin set, in buffer order.
C1_RowsAlwaysMatchBuffer == (LoopIdle /\ ControlsSet) => RowsMatchBuffer

\* C1 amended: the rows are always a suffix of the accepted buffer events; they
\* are exactly the accepted events after every refresh, delete, checkbox toggle
\* and origin change with the checkbox off; and every operation other than the
\* view-only clear keeps the rows equal to the accepted events once they are.
C1_RowsMatchBufferUnlessCleared ==
    [][(LoopIdle' /\ ControlsSet') =>
         LET shown    == RowKeys(Rows')
             accepted == EventKeys(Accepted')
             rebuilt  == \/ task'.name \in RebuildTasks
                         \/ task'.name = "onOriginChanged" /\ ~originCheckbox'.checked
                         \/ pc = "grid"
             kept     == LoopIdle /\ task'.name # "clearView" /\ RowsMatchBuffer
         IN  IF rebuilt THEN shown = accepted
             ELSE /\ IsSuffix(shown, accepted)
                  /\ kept => shown = accepted]_vars

\* an event of the bound service was received and shown after one the filter hides
C1_Witness ==
    /\ task.name = "onEventReceived"
    /\ ControlsSet
    /\ Len(events) = 2
    /\ events[1].service = serviceName
    /\ Len(Rows) = 1
    /\ RowsMatchBuffer
    /\ RowKey(Rows[1]) = EventKey(events[2])

----------------------------------------------------------------------------
(* C2 *)

TrimOrigins == {<<>>, <<"a">>, <<"a", "/">>, <<"b", "/">>, <<"a", "/", "/">>}

TrimEvents ==
    {[Event1 EXCEPT !.service = s, !.origin = o] : s \in ServiceNames, o \in TrimOrigins}

TrimOriginSets == SUBSET {<<>>, <<"a">>, <<"a", "/">>}

\* the reference predicate: the origin is a member of the active set extended
\* by the origin's own last character (the empty origin stays empty)
ReferenceAccept(e, bound, showOther, active) ==
    IF e.service # bound THEN FALSE
    ELSE IF showOther THEN TRUE
    ELSE \E a \in active :
            IF Len(e.origin) = 0 THEN a = <<>>
            ELSE a \o <<e.origin[Len(e.origin)]>> = e.origin

\* C2: acceptEvent equals the reference predicate for every event, every value
\* of the checkbox and every active-origin set, and so in the current state.
C2_AcceptEventMatchesReference ==
    /\ \A e \in TrimEvents \cup ServiceEvents, showOther \in BOOLEAN,
          active \in TrimOriginSets \cup OriginSets :
          AcceptEvent(e, serviceName, [isNull |-> FALSE, checked |-> showOther], active)
            = ReferenceAccept(e, serviceName, showOther, active)
    /\ (~originCheckbox.isNull) =>
          \A e \in ServiceEvents :
             AcceptEvent(e, serviceName, originCheckbox, securityOrigins)
               = ReferenceAccept(e, serviceName, originCheckbox.checked, securityOrigins)

\* an event was accepted because its trimmed origin is an active origin
C2_Witness ==
    /\ task.name = "onEventReceived"
    /\ ~task.error
    /\ ~originCheckbox.isNull
    /\ ~originCheckbox.checked
    /\ task.arg.service = serviceName
    /\ calls = <<Call("appendChild", <<>>)>>
    /\ ReferenceAccept(task.arg, serviceName, FALSE, securityOrigins)

----------------------------------------------------------------------------
(* C3 *)

RefreshOnce ==
    RefreshView(dataGrid, events, serviceName, originCheckbox, securityOrigins, registrations)

RefreshTwice ==
    RefreshView(RefreshOnce.dataGrid, events, serviceName, originCheckbox,
                securityOrigins, registrations)

\* C3: from every state the view can be in, a second refresh with the buffer
\* unchanged leaves the rows of the first refresh: same count, same field
\* values, same order; and a refresh of a state a refresh produced changes
\* nothing.
C3_RefreshIdempotent ==
    (LoopIdle /\ ControlsSet) =>
        /\ RefreshTwice.dataGrid = RefreshOnce.dataGrid
        /\ (task.name = "refreshView" => RefreshOnce.dataGrid = dataGrid)

\* a refresh has rebuilt two rows
C3_Witness ==
    /\ task.name = "refreshView"
    /\ ~task.error
    /\ Len(Rows) = 2
    /\ calls = <<Call("removeChildren", <<>>), Call("getEvents", <<serviceName>>),
                 Call("appendChild", <<>>), Call("appendChild", <<>>)>>

----------------------------------------------------------------------------
(* C4 *)

\* C4: every row carries as id the row count before its insertion, so the
\* i-th row (0-based) has id i; after a full refresh of n accepted events the
\* ids are exactly 0..n-1.
C4_SequenceIds ==
    /\ \A i \in 1..Len(Rows) : Rows[i].data.id = i - 1
    /\ (task.name \in {"refreshView", "originCheckbox"} /\ ControlsSet) =>
          /\ Len(Rows) = Len(Accepted)
          /\ {Rows[i].data.id : i \in 1..Len(Rows)} = 0..(Len(Accepted) - 1)

\* a full refresh of two accepted events
C4_Witness ==
    /\ task.name \in {"refreshView", "originCheckbox"}
    /\ ControlsSet
    /\ Len(Accepted) = 2
    /\ Len(Rows) = 2
    /\ Rows[1].data.id = 0
    /\ Rows[2].data.id = 1

----------------------------------------------------------------------------
(* C5 *)

\* C5: the record button's toggled state changes only in the handling of a
\* recording-state-changed notification for the bound service, which sets it
\* to the notification's isRecording; a click on the record button and a
\* notification for another service leave it as it was.
C5_ToggledOnlyByConfirmation ==
    [][LoopIdle =>
         /\ (recordButton' # recordButton =>
                /\ task'.name = "onRecordingStateChanged"
                /\ task'.arg.serviceName = serviceName)
         /\ (task'.name = "onRecordingStateChanged" =>
                IF task'.arg.serviceName = serviceName
                THEN recordButton'.toggled = task'.arg.isRecording
                ELSE recordButton' = recordButton)
         /\ (task'.name = "toggleRecording" => recordButton' = recordButton)]_vars

\* a notification for the bound service has switched the button on
C5_Witness ==
    /\ task.name = "onRecordingStateChanged"
    /\ task.arg.serviceName = serviceName
    /\ task.arg.isRecording
    /\ ~recordButton.isNull
    /\ recordButton.toggled

----------------------------------------------------------------------------
(* C6 *)

\* C6: a click on the record button makes exactly one call on the model,
\* setRecording for the bound service with the negation of the button's
\* toggled state at the click; that state is false when the toolbar is built.
C6_ToggleRequestsNegation ==
    [][/\ (task'.name = "toggleRecording" =>
             calls' = <<Call("setRecording", <<~recordButton.toggled, serviceName>>)>>)
       /\ (pc = "toolbar" /\ ~recordButton'.isNull => ~recordButton'.toggled)]_vars

\* a click asked the model to stop a confirmed recording
C6_Witness ==
    /\ task.name = "toggleRecording"
    /\ ~recordButton.isNull
    /\ recordButton.toggled
    /\ calls = <<Call("setRecording", <<FALSE, serviceName>>)>>

----------------------------------------------------------------------------
(* C7 *)

\* C7: handling an event-received notification leaves the rows unchanged when
\* acceptEvent rejects the event, and otherwise appends one row built from the
\* event after the existing rows, which keep their values and positions.
C7_EventReceivedAppendsOne ==
    [][(LoopIdle /\ ControlsSet /\ task'.name = "onEventReceived") =>
         IF AcceptEvent(task'.arg, serviceName, originCheckbox, securityOrigins)
         THEN /\ Len(Rows') = Len(Rows) + 1
              /\ SubSeq(Rows', 1, Len(Rows)) = Rows
              /\ RowKey(Rows'[Len(Rows')]) = EventKey(task'.arg)
              /\ Rows'[Len(Rows')].eventMetadata = task'.arg.eventMetadata
         ELSE Rows' = Rows]_vars

\* an accepted event became the second row
C7_Witness ==
    /\ task.name = "onEventReceived"
    /\ ~task.error
    /\ Len(Rows) = 2
    /\ RowKey(Rows[2]) = EventKey(task.arg)
    /\ RowKey(Rows[1]) # EventKey(task.arg)

----------------------------------------------------------------------------
(* C8 *)

\* C8: handling an active-origin-changed notification leaves the rows
\* unchanged when the checkbox is on; otherwise the rows afterwards are exactly
\* the buffer events accepted under the new origin set, in buffer order.
C8_OriginChangedRefreshes ==
    [][(LoopIdle /\ ControlsSet /\ task'.name = "onOriginChanged") =>
         IF originCheckbox.checked
         THEN Rows' = Rows
         ELSE RowKeys(Rows') = EventKeys(AcceptedUnder(originCheckbox, securityOrigins'))]_vars

\* an origin change with the checkbox off hid one of two events of the service
C8_Witness ==
    /\ task.name = "onOriginChanged"
    /\ ControlsSet
    /\ ~originCheckbox.checked
    /\ Len(GetEvents(events, serviceName)) = 2
    /\ Len(Rows) = 1
    /\ RowsMatchBuffer

----------------------------------------------------------------------------
(* C9 *)

\* C9: delete calls clearEvents for the bound service on the model before it
\* removes the rows, and leaves the table without rows.
C9_DeletePurgesThenClears ==
    task.name = "deleteEvents" =>
        /\ calls = <<Call("clearEvents", <<serviceName>>), Call("removeChildren", <<>>)>>
        /\ Rows = <<>>

\* a delete that left the other service's event in the buffer
C9_Witness ==
    /\ task.name = "deleteEvents"
    /\ ~task.error
    /\ Len(events) = 1
    /\ Rows = <<>>

----------------------------------------------------------------------------
(* C10 *)

NotificationHandlers == {"onRecordingStateChanged", "onEventReceived", "onOriginChanged"}

\* C10: every execution of a notification handler starts in a state where the
\* record button, the origin checkbox and the table are set, and none ends in
\* a TypeError.
C10_HandlersFindControls ==
    [][task'.name \in NotificationHandlers => (ControlsSet /\ ~task'.error)]_vars

\* the three listeners are subscribed and a notification has been handled
C10_Witness ==
    /\ task.name \in NotificationHandlers
    /\ listeners = {"RecordingStateChanged", "BackgroundServiceEventReceived",
                    "MainSecurityOriginChanged"}
    /\ ControlsSet
    /\ ~task.error

====
